---- MODULE Spec2Model ----
(***************************************************************************)
(* MovieAP backend: the review handlers, the rating aggregates they keep   *)
(* on the movie documents, the review routes with their middleware, and    *)
(* the movie handlers that write movie documents.                          *)
(*                                                                         *)
(* The repository holds two review controllers.  Handlers suffixed A are   *)
(* the ones served under /api (controllers/review.controller.js with       *)
(* createReview / updateReview / deleteReview, routed through              *)
(* authenticate and isAdmin); handlers suffixed B are the ones served      *)
(* under /api/v1 (createReview / updateReview of the second                *)
(* review.controller.js).  Both work on the same Review and Movie          *)
(* collections.                                                            *)
(*                                                                         *)
(* A handler yields only at its awaits, so every action below is one       *)
(* store operation together with the synchronous code that follows it up   *)
(* to the next await (or to the response).                                 *)
(***************************************************************************)
EXTENDS Integers, FiniteSets, Sequences, TLC

(***************************************************************************)
(* Bounds of the model.                                                    *)
(***************************************************************************)
\* number of requests that can be in flight at once
NumProcs == 2
\* number of review documents ever inserted (ObjectIds are never reused)
MaxReviews == 2
\* length up to which a list's movies array is let grow
MaxArray == 3
\* number of reminder documents ever inserted
MaxReminders == 2

(***************************************************************************)
(* Program constants.                                                      *)
(***************************************************************************)
\* reviewSchema.rating.min / max
MinRating == 1
MaxRating == 5
\* movieSchema.averageRating.min / max
MinAverage == 0
MaxAverage == 5

Procs == 1..NumProcs
ReviewIds == 1..MaxReviews

\* Principals: two ordinary users and one admin (userSchema.role).
Users == {"u1", "u2", "adm"}
Role(u) == IF u = "adm" THEN "admin" ELSE "user"

\* Movie ObjectIds a request can name.
MovieIds == {"m1", "m2"}

\* Ratings a request body can carry: the ends of the valid range and one value
\* outside it.
RatingInputs == {MinRating, MaxRating, MaxRating + 1}

(***************************************************************************)
(* Numbers.  averageRating is a JavaScript number obtained by dividing two *)
(* small integers; it is kept as the reduced fraction <<num, den>>, and    *)
(* 0/0 is NaN.                                                             *)
(***************************************************************************)
RECURSIVE GCD(_, _)
GCD(a, b) == IF b = 0 THEN a ELSE GCD(b, a % b)

NaN == <<0, 0>>
Zero == <<0, 1>>

\* sum / length as the handlers compute it
Divide(s, n) ==
    IF n = 0 THEN NaN
    ELSE LET g == GCD(s, n) IN <<s \div g, n \div g>>

IsNaN(x) == x[2] = 0

\* min <= x <= max for a fraction x with positive denominator
InRange(x, lo, hi) == lo * x[2] <= x[1] /\ x[1] <= hi * x[2]

RECURSIVE SumRatings(_)
\* reviews.reduce((acc, curr) => acc + curr.rating, 0)
SumRatings(S) ==
    IF S = {} THEN 0
    ELSE LET x == CHOOSE y \in S : TRUE
         IN x.rating + SumRatings(S \ {x})

(***************************************************************************)
(* State.                                                                  *)
(***************************************************************************)
VARIABLES
    movies,     \* Movie collection: MovieIds -> document or NoMovie
    reviews,    \* Review collection: a set of documents
    nextId,     \* next Review ObjectId
    req,        \* the requests in flight: Procs -> handler position and locals
    resp,       \* the response sent by the last step (NoResp when it sent none)
    users,      \* User collection: Users -> document or NoAccount
    lists,      \* List collection: ListIds -> document or NoList
    catalog,    \* genre, cast, crew, ageRating and language of each movie id
    result,     \* the movies sent by the last step (NoResult when it sent none)
    profile,    \* username, email and role of the accounts register creates
    reminders,  \* Reminder collection: a set of documents
    released    \* the release date of the upcoming movies has passed

vars == <<movies, reviews, nextId, req, resp, users, lists, catalog, result,
          profile, reminders, released>>

\* the Review and Movie collections, which the user and list handlers leave alone
ReviewStore == <<movies, reviews, nextId>>

NoResult == [user |-> "-", movies |-> {}]

\* a step that sends no movies and writes no descriptive field of a movie, no
\* account name and no reminder, and during which no release date passes
NoPayload == result' = NoResult /\ UNCHANGED <<catalog, profile, reminders, released>>

\* what the review and movie handlers leave alone
OthersUnchanged == UNCHANGED <<users, lists>> /\ NoPayload

ListIds == {"l1"}

\* User ObjectIds that register hands out.  The three principals above were
\* registered earlier, under names and addresses no request below uses.
AccountIds == {"n1", "n2", "n3"}

NoAccount == [exists |-> FALSE]
\* a User document as register stores it: the arrays empty
NewAccount ==
    [exists |-> TRUE, wishlist |-> <<>>, watchedMovies |-> {},
     preferences |-> [favoriteGenres |-> {}, favoriteActors |-> {},
                      favoriteDirectors |-> {}, contentRating |-> {},
                      languages |-> {}]]

\* the descriptive fields movie documents are given: genre, names of the cast's
\* actors, names of the crew, ageRating.rating, technicalSpecs.language
Films ==
    [genre : {{"action"}, {"drama"}}, cast : SUBSET {"a1"}, crew : SUBSET {"d1"},
     ageRating : {"G", "R"}, language : {{"en"}, {"fr"}}]

\* the movie ids of the catalogue: those the review handlers are run on and
\* enough further ones to exceed the limit of getRecommendations
CatalogIds == MovieIds \cup {"m3", "m4", "m5", "m6", "m7", "m8", "m9", "m10", "m11"}

NoList == [exists |-> FALSE]

NoMovie == [exists |-> FALSE]
\* a Movie document with the schema defaults for the derived fields
NewMovie == [exists |-> TRUE, averageRating |-> Zero, totalRatings |-> 0, specs |-> 0]

Idle == [pc |-> "idle"]
NoResp == [status |-> 0]

MovieExists(m) == movies[m].exists

\* a find that leaves the movie filter out
EveryReview(m) == reviews

\* Review.find({ movie: m })
ReviewsOf(m) == {x \in reviews : x.movie = m}
\* Review.findOne({ _id: id }) / Review.findById(id)
ReviewById(id) == {x \in reviews : x.id = id}
\* Review.findOne({ user: u, movie: m })
ReviewOfPair(u, m) == {x \in reviews : x.user = u /\ x.movie = m}

InFlight == {p \in Procs : req[p].pc # "idle"}

Init ==
    /\ movies = [m \in MovieIds |-> IF m = "m1" THEN NewMovie ELSE NoMovie]
    /\ reviews = {}
    /\ nextId = 1
    /\ req = [p \in Procs |-> Idle]
    /\ resp = NoResp
    /\ users = [u \in Users |-> NewAccount]
    /\ lists = [l \in ListIds |-> NoList]
    /\ catalog = [m \in CatalogIds |->
                    [genre |-> {"action"}, cast |-> {"a1"}, crew |-> {"d1"},
                     ageRating |-> "G", language |-> {"en"}]]
    /\ result = NoResult
    /\ profile = [a \in AccountIds |-> NoAccount]
    /\ reminders = {}
    /\ released = FALSE

(***************************************************************************)
(* Requests and responses.  A handler that answers leaves the in-flight    *)
(* set; resp holds the status, the handler, how it was reached (called on  *)
(* its own or through its route), the movie concerned and the message      *)
(* (for a caught exception, the kind of error whose message is sent).      *)
(***************************************************************************)
Respond(p, op, via, m, status, msg) ==
    /\ req' = [req EXCEPT ![p] = Idle]
    /\ resp' = [status |-> status, op |-> op, via |-> via, movie |-> m, msg |-> msg]

\* the response of a request already in flight
Answer(p, status, msg) ==
    Respond(p, req[p].op, req[p].via, req[p].movie, status, msg)

\* a step that sends no response
Silent == resp' = NoResp

\* the locals of a handler in flight; a local that is not read again is
\* cleared to NoUser / 0
NoUser == "-"
Frame(pc, op, via, u, m, rid, r) ==
    [pc |-> pc, op |-> op, via |-> via, user |-> u, movie |-> m, rid |-> rid,
     rating |-> r, avg |-> Zero, cnt |-> 0, text |-> TRUE, mfound |-> FALSE]

\* a request can be accepted: p is free and fewer than cap requests are running
Free(p, cap) == req[p].pc = "idle" /\ Cardinality(InFlight) < cap

At(p, pc) == req[p].pc = pc

(***************************************************************************)
(* Review schema.                                                          *)
(***************************************************************************)
\* rating: required, min 1, max 5; comment: required
SchemaValid(r, text) == text /\ MinRating <= r /\ r <= MaxRating

\* a collection without the unique index accepts every insert
UniqueIndexOff(u, m) == TRUE
\* reviewSchema.index({ user: 1, movie: 1 }, { unique: true })
UniqueIndexAllows(u, m) == ReviewOfPair(u, m) = {}

\* the document an insert stores
NewReview(u, m, r) == [id |-> nextId, user |-> u, movie |-> m, rating |-> r]

(***************************************************************************)
(* Authorization.                                                          *)
(***************************************************************************)
\* a gate that lets every role through
EveryRole(u) == TRUE
\* middleware isAdmin: req.user.role !== 'admin' -> 403
IsAdmin(u) == Role(u) = "admin"

\* a handler without the ownership check lets every principal through
AnyPrincipal(x, u) == TRUE
\* review.user.toString() === req.user._id.toString() || req.user.role === 'admin'
OwnerOrAdmin(x, u) == x.user = u \/ Role(u) = "admin"

(***************************************************************************)
(* Movie.findByIdAndUpdate(id, patch): no validators run, a missing        *)
(* document gives null and no error.                                       *)
(***************************************************************************)
\* the patch { averageRating: avgRating, totalRatings: reviews.length }
SetAverageAndCount(m, avg, cnt) ==
    IF MovieExists(m)
    THEN [movies EXCEPT ![m].averageRating = avg, ![m].totalRatings = cnt]
    ELSE movies

\* updateReview's patch: { averageRating: avgRating }
SetAverage(m, avg) ==
    IF MovieExists(m)
    THEN [movies EXCEPT ![m].averageRating = avg]
    ELSE movies

\* Review.find({ movie }) followed by sum / length, kept in the locals
Recompute(p, pc, emptyAvg) ==
    LET S == ReviewsOf(req[p].movie)
    IN req' = [req EXCEPT ![p].pc = pc,
                          ![p].avg = IF S = {} THEN emptyAvg
                                     ELSE Divide(SumRatings(S), Cardinality(S)),
                          ![p].cnt = Cardinality(S)]

(***************************************************************************)
(* createReview (A): review.save(); Review.find; Movie.findByIdAndUpdate.  *)
(***************************************************************************)
\* const review = new Review({...}); await review.save();
CreateReviewA_save(p, u, m, r, text, cap) ==
    /\ Free(p, cap)
    /\ IF ~SchemaValid(r, text)
       THEN /\ Respond(p, "createA", "handler", m, 400, "ValidationError")
            /\ UNCHANGED <<movies, reviews, nextId>>
       ELSE IF ~UniqueIndexAllows(u, m)
       THEN /\ Respond(p, "createA", "handler", m, 400, "E11000")
            /\ UNCHANGED <<movies, reviews, nextId>>
       ELSE /\ nextId <= MaxReviews
            /\ reviews' = reviews \cup {NewReview(u, m, r)}
            /\ nextId' = nextId + 1
            /\ req' = [req EXCEPT ![p] =
                         Frame("cA_find", "createA", "handler", NoUser, m, nextId, 0)]
            /\ Silent
            /\ UNCHANGED movies

\* const reviews = await Review.find({ movie: movieId }); avgRating = sum / length
CreateReviewA_find(p) ==
    /\ At(p, "cA_find")
    /\ Recompute(p, "cA_upd", NaN)
    /\ Silent
    /\ UNCHANGED <<movies, reviews, nextId>>

\* await Movie.findByIdAndUpdate(movieId, {averageRating, totalRatings}); 201
\* (casting NaN to Number throws a CastError, caught as 400)
CreateReviewA_update(p) ==
    /\ At(p, "cA_upd")
    /\ IF IsNaN(req[p].avg)
       THEN /\ Answer(p, 400, "CastError")
            /\ UNCHANGED <<movies, reviews, nextId>>
       ELSE /\ movies' = SetAverageAndCount(req[p].movie, req[p].avg, req[p].cnt)
            /\ Answer(p, 201, "created")
            /\ UNCHANGED <<reviews, nextId>>

(***************************************************************************)
(* updateReview (A): Review.findOne; ownership check;                      *)
(* Review.findOneAndUpdate; Review.find; Movie.findByIdAndUpdate.          *)
(***************************************************************************)
\* const review = await Review.findOne({ _id }); 404 / 403 / go on
UpdateReviewA_findOne(p, via, u, rid, r) ==
    LET found == ReviewById(rid) IN
    IF found = {}
    THEN /\ Respond(p, "updateA", via, "none", 404, "Review not found")
         /\ UNCHANGED <<movies, reviews, nextId>>
    ELSE LET x == CHOOSE y \in found : TRUE IN
         IF ~OwnerOrAdmin(x, u)
         THEN /\ Respond(p, "updateA", via, x.movie, 403, "Unauthorized")
              /\ UNCHANGED <<movies, reviews, nextId>>
         ELSE /\ req' = [req EXCEPT ![p] =
                           Frame("uA_write", "updateA", via, NoUser, x.movie, rid, r)]
              /\ Silent
              /\ UNCHANGED <<movies, reviews, nextId>>

\* the handler called on its own
UpdateReviewA_begin(p, u, rid, r, cap) ==
    /\ Free(p, cap)
    /\ UpdateReviewA_findOne(p, "handler", u, rid, r)

\* a findOneAndUpdate with upsert: true, that inserts when nothing matches
UpsertingWrite(p) ==
    /\ At(p, "uA_write")
    /\ reviews' = {x \in reviews : x.id # req[p].rid}
                     \cup {[id |-> req[p].rid, user |-> req[p].user,
                            movie |-> req[p].movie, rating |-> req[p].rating]}
    /\ req' = [req EXCEPT ![p].pc = "uA_find", ![p].rating = 0]
    /\ Silent
    /\ UNCHANGED <<movies, nextId>>

\* updatedReview = await Review.findOneAndUpdate({ _id }, { rating, comment }, { new: true })
\* (no runValidators); a null result makes updatedReview.movie throw, caught as 400
UpdateReviewA_write(p) ==
    /\ At(p, "uA_write")
    /\ LET found == ReviewById(req[p].rid) IN
       IF found = {}
       THEN /\ Answer(p, 400, "TypeError")
            /\ UNCHANGED <<movies, reviews, nextId>>
       ELSE LET x == CHOOSE y \in found : TRUE IN
            /\ reviews' = (reviews \ {x}) \cup {[x EXCEPT !.rating = req[p].rating]}
            /\ req' = [req EXCEPT ![p].pc = "uA_find", ![p].movie = x.movie,
                                  ![p].rating = 0]
            /\ Silent
            /\ UNCHANGED <<movies, nextId>>

\* const reviews = await Review.find({ movie: updatedReview.movie }); sum / length
UpdateReviewA_find(p) ==
    /\ At(p, "uA_find")
    /\ Recompute(p, "uA_upd", NaN)
    /\ Silent
    /\ UNCHANGED <<movies, reviews, nextId>>

\* await Movie.findByIdAndUpdate(updatedReview.movie, { averageRating: avgRating })
UpdateReviewA_update(p) ==
    /\ At(p, "uA_upd")
    /\ IF IsNaN(req[p].avg)
       THEN /\ Answer(p, 400, "CastError")
            /\ UNCHANGED <<movies, reviews, nextId>>
       ELSE /\ movies' = SetAverage(req[p].movie, req[p].avg)
            /\ Answer(p, 200, "updated")
            /\ UNCHANGED <<reviews, nextId>>

(***************************************************************************)
(* deleteReview (A): Review.findById; ownership check; Review.deleteOne;   *)
(* Review.find; Movie.findByIdAndUpdate.                                   *)
(***************************************************************************)
DeleteReviewA_findById(p, via, u, rid) ==
    LET found == ReviewById(rid) IN
    IF found = {}
    THEN /\ Respond(p, "deleteA", via, "none", 404, "Review not found")
         /\ UNCHANGED <<movies, reviews, nextId>>
    ELSE LET x == CHOOSE y \in found : TRUE IN
         IF ~OwnerOrAdmin(x, u)
         THEN /\ Respond(p, "deleteA", via, x.movie, 403, "Unauthorized")
              /\ UNCHANGED <<movies, reviews, nextId>>
         ELSE /\ req' = [req EXCEPT ![p] =
                           Frame("dA_del", "deleteA", via, NoUser, x.movie, rid, 0)]
              /\ Silent
              /\ UNCHANGED <<movies, reviews, nextId>>

DeleteReviewA_begin(p, u, rid, cap) ==
    /\ Free(p, cap)
    /\ DeleteReviewA_findById(p, "handler", u, rid)

\* await Review.deleteOne({ _id: review._id })
DeleteReviewA_delete(p) ==
    /\ At(p, "dA_del")
    /\ reviews' = reviews \ ReviewById(req[p].rid)
    /\ req' = [req EXCEPT ![p].pc = "dA_find", ![p].rid = 0]
    /\ Silent
    /\ UNCHANGED <<movies, nextId>>

\* reviews = await Review.find({ movie }); avg = length ? sum / length : 0
DeleteReviewA_find(p) ==
    /\ At(p, "dA_find")
    /\ Recompute(p, "dA_upd", Zero)
    /\ Silent
    /\ UNCHANGED <<movies, reviews, nextId>>

\* await Movie.findByIdAndUpdate(review.movie, {averageRating, totalRatings}); 200
DeleteReviewA_update(p) ==
    /\ At(p, "dA_upd")
    /\ movies' = SetAverageAndCount(req[p].movie, req[p].avg, req[p].cnt)
    /\ Answer(p, 200, "deleted")
    /\ UNCHANGED <<reviews, nextId>>

(***************************************************************************)
(* Review routes (A): router.put('/:id', authenticate, isAdmin, update),   *)
(* router.delete('/:id', authenticate, isAdmin, delete).  authenticate     *)
(* attaches the token's user; isAdmin answers 403 unless the role is admin.*)
(***************************************************************************)
PutReviewRoute(p, u, rid, r, cap) ==
    /\ Free(p, cap)
    /\ IF ~IsAdmin(u)
       THEN /\ Respond(p, "updateA", "route", "none", 403, "Admin access required")
            /\ UNCHANGED <<movies, reviews, nextId>>
       ELSE UpdateReviewA_findOne(p, "route", u, rid, r)

DeleteReviewRoute(p, u, rid, cap) ==
    /\ Free(p, cap)
    /\ IF ~IsAdmin(u)
       THEN /\ Respond(p, "deleteA", "route", "none", 403, "Admin access required")
            /\ UNCHANGED <<movies, reviews, nextId>>
       ELSE DeleteReviewA_findById(p, "route", u, rid)

(***************************************************************************)
(* createReview (B): Review.findOne; Review.create; Movie.findById;        *)
(* Review.find; movie.save().                                              *)
(***************************************************************************)
\* creates of B that passed the findOne and have not inserted yet
PendingCreates == {q \in Procs : req[q].pc = "cB_create"}

\* existingReview = await Review.findOne({ user, movie }); 400 when there is one
CreateReviewB_findOne(p, u, m, r, text, cap) ==
    /\ Free(p, cap)
    /\ IF ReviewOfPair(u, m) # {}
       THEN /\ Respond(p, "createB", "handler", m, 400, "already reviewed")
            /\ UNCHANGED <<movies, reviews, nextId>>
       ELSE /\ nextId + Cardinality(PendingCreates) <= MaxReviews
            /\ req' = [req EXCEPT ![p] =
                         [Frame("cB_create", "createB", "handler", u, m, 0, r)
                            EXCEPT !.text = text]]
            /\ Silent
            /\ UNCHANGED <<movies, reviews, nextId>>

\* newReview = await Review.create({ user, movie, rating, review })
CreateReviewB_create(p) ==
    /\ At(p, "cB_create")
    /\ IF ~SchemaValid(req[p].rating, req[p].text)
       THEN /\ Answer(p, 400, "ValidationError")
            /\ UNCHANGED <<movies, reviews, nextId>>
       ELSE IF ~UniqueIndexAllows(req[p].user, req[p].movie)
       THEN /\ Answer(p, 400, "E11000")
            /\ UNCHANGED <<movies, reviews, nextId>>
       ELSE /\ reviews' = reviews \cup {NewReview(req[p].user, req[p].movie, req[p].rating)}
            /\ nextId' = nextId + 1
            /\ req' = [req EXCEPT ![p].pc = "cB_movie", ![p].rid = nextId,
                                  ![p].user = NoUser, ![p].rating = 0]
            /\ Silent
            /\ UNCHANGED movies

\* const movie = await Movie.findById(movieId)
CreateReviewB_findMovie(p) ==
    /\ At(p, "cB_movie")
    /\ req' = [req EXCEPT ![p].pc = "cB_find", ![p].mfound = MovieExists(req[p].movie)]
    /\ Silent
    /\ UNCHANGED <<movies, reviews, nextId>>

\* allReviews = await Review.find({ movie }); movie.averageRating = total / length;
\* movie.totalRatings = length  (movie === null throws a TypeError, caught as 400)
CreateReviewB_find(p) ==
    /\ At(p, "cB_find")
    /\ IF ~req[p].mfound
       THEN /\ Answer(p, 400, "TypeError")
            /\ UNCHANGED <<movies, reviews, nextId>>
       ELSE /\ Recompute(p, "cB_save", NaN)
            /\ Silent
            /\ UNCHANGED <<movies, reviews, nextId>>

\* await movie.save(): validates averageRating (a Number within min 0, max 5) and
\* writes the two modified paths; a document deleted meanwhile is an error; 201
CreateReviewB_saveMovie(p) ==
    /\ At(p, "cB_save")
    /\ IF \/ IsNaN(req[p].avg)
          \/ ~InRange(req[p].avg, MinAverage, MaxAverage)
          \/ ~MovieExists(req[p].movie)
       THEN /\ Answer(p, 400, "save failed")
            /\ UNCHANGED <<movies, reviews, nextId>>
       ELSE /\ movies' = SetAverageAndCount(req[p].movie, req[p].avg, req[p].cnt)
            /\ Answer(p, 201, "created")
            /\ UNCHANGED <<reviews, nextId>>

(***************************************************************************)
(* updateReview (B): one Review.findOneAndUpdate filtered by _id and user; *)
(* the movie is not touched.                                               *)
(***************************************************************************)
UpdateReviewB(p, u, rid, r, cap) ==
    /\ Free(p, cap)
    /\ LET found == {x \in ReviewById(rid) : x.user = u} IN
       IF found = {}
       THEN /\ Respond(p, "updateB", "handler", "none", 404, "Review not found or unauthorized")
            /\ UNCHANGED <<movies, reviews, nextId>>
       ELSE LET x == CHOOSE y \in found : TRUE IN
            /\ reviews' = (reviews \ {x}) \cup {[x EXCEPT !.rating = r]}
            /\ Respond(p, "updateB", "handler", x.movie, 200, "updated")
            /\ UNCHANGED <<movies, nextId>>

(***************************************************************************)
(* Specifications.  in.U, in.M, in.R and in.T are the principals, the      *)
(* movie ids, the ratings and the presence of the comment that arriving    *)
(* requests are drawn from.                                                *)
(***************************************************************************)
\* a request arrives and its handler runs up to its first await's result
ArriveCreateA(P, cap, in) ==
    \E p \in P, u \in in.U, m \in in.M, r \in in.R, text \in in.T :
        CreateReviewA_save(p, u, m, r, text, cap) /\ OthersUnchanged

ArriveUpdateA(P, cap, in) ==
    \E p \in P, u \in in.U, rid \in ReviewIds, r \in in.R :
        UpdateReviewA_begin(p, u, rid, r, cap) /\ OthersUnchanged

ArriveDeleteA(P, cap, in) ==
    \E p \in P, u \in in.U, rid \in ReviewIds :
        DeleteReviewA_begin(p, u, rid, cap) /\ OthersUnchanged

\* a request arrives on a review route of A
ArriveRouteA(P, cap, in) ==
    \E p \in P, u \in in.U, rid \in ReviewIds :
        /\ \/ \E r \in in.R : PutReviewRoute(p, u, rid, r, cap)
           \/ DeleteReviewRoute(p, u, rid, cap)
        /\ OthersUnchanged

ArriveCreateB(P, cap, in) ==
    \E p \in P, u \in in.U, m \in in.M, r \in in.R, text \in in.T :
        CreateReviewB_findOne(p, u, m, r, text, cap) /\ OthersUnchanged

ArriveUpdateB(P, cap, in) ==
    \E p \in P, u \in in.U, rid \in ReviewIds, r \in in.R :
        UpdateReviewB(p, u, rid, r, cap) /\ OthersUnchanged

\* a handler in flight continues after an await
ContinueCreateA ==
    \E p \in Procs :
        /\ CreateReviewA_find(p) \/ CreateReviewA_update(p)
        /\ OthersUnchanged

ContinueUpdateA ==
    \E p \in Procs :
        /\ UpdateReviewA_write(p) \/ UpdateReviewA_find(p) \/ UpdateReviewA_update(p)
        /\ OthersUnchanged

ContinueDeleteA ==
    \E p \in Procs :
        /\ DeleteReviewA_delete(p) \/ DeleteReviewA_find(p) \/ DeleteReviewA_update(p)
        /\ OthersUnchanged

ContinueCreateB ==
    \E p \in Procs :
        /\ \/ CreateReviewB_create(p)
           \/ CreateReviewB_findMovie(p)
           \/ CreateReviewB_find(p)
           \/ CreateReviewB_saveMovie(p)
        /\ OthersUnchanged

\* every principal, movie id and rating
AllInputs == [U |-> Users, M |-> MovieIds, R |-> RatingInputs, T |-> BOOLEAN]

\* the concurrent runs: two authors, the movie that exists, the two ends of the
\* valid range, bodies with their comment
ConcInputs == [U |-> {"u1", "u2"}, M |-> {"m1"}, R |-> {MinRating, MaxRating},
               T |-> {TRUE}]

\* the review handlers of A and B, interleaved at every await
Next ==
    \/ ArriveCreateA(Procs, NumProcs, ConcInputs)
    \/ ArriveUpdateA(Procs, NumProcs, ConcInputs)
    \/ ArriveDeleteA(Procs, NumProcs, ConcInputs)
    \/ ArriveCreateB(Procs, NumProcs, ConcInputs)
    \/ ArriveUpdateB(Procs, NumProcs, ConcInputs)
    \/ ContinueCreateA
    \/ ContinueUpdateA
    \/ ContinueDeleteA
    \/ ContinueCreateB
Spec == Init /\ [][Next]_vars

\* the review handlers and routes, run one at a time, each to completion
NextSeq ==
    \/ ArriveCreateA({1}, 1, AllInputs)
    \/ ArriveUpdateA({1}, 1, AllInputs)
    \/ ArriveDeleteA({1}, 1, AllInputs)
    \/ ArriveRouteA({1}, 1, AllInputs)
    \/ ArriveCreateB({1}, 1, AllInputs)
    \/ ArriveUpdateB({1}, 1, AllInputs)
    \/ ContinueCreateA
    \/ ContinueUpdateA
    \/ ContinueDeleteA
    \/ ContinueCreateB
SpecSeq == Init /\ [][NextSeq]_vars

\* the handlers that recompute both aggregates from the full review set
\* (createReview and deleteReview of A, createReview of B), interleaved
NextRace ==
    \/ ArriveCreateA(Procs, NumProcs, ConcInputs)
    \/ ArriveDeleteA(Procs, NumProcs, ConcInputs)
    \/ ArriveCreateB(Procs, NumProcs, ConcInputs)
    \/ ContinueCreateA
    \/ ContinueDeleteA
    \/ ContinueCreateB
SpecRace == Init /\ [][NextRace]_vars

(***************************************************************************)
(* A handler that stops after its review write and before its movie write  *)
(* (the process dies between the two store operations): the request never  *)
(* answers and the movie keeps the aggregates it had.                      *)
(***************************************************************************)
AfterReviewWrite ==
    {"cA_find", "cA_upd", "uA_find", "uA_upd", "dA_find", "dA_upd",
     "cB_movie", "cB_find", "cB_save"}

Crash(p) ==
    /\ req[p].pc \in AfterReviewWrite
    /\ req' = [req EXCEPT ![p] = Idle]
    /\ Silent
    /\ UNCHANGED <<movies, reviews, nextId>>
    /\ OthersUnchanged

\* the review handlers of A run one at a time; a handler may stop between its
\* review write and its movie write
NextCrash ==
    \/ ArriveCreateA({1}, 1, AllInputs)
    \/ ArriveUpdateA({1}, 1, AllInputs)
    \/ ArriveDeleteA({1}, 1, AllInputs)
    \/ ContinueCreateA
    \/ ContinueUpdateA
    \/ ContinueDeleteA
    \/ \E p \in Procs : Crash(p)
SpecCrash == Init /\ [][NextCrash]_vars

\* the gate runs: every principal, the movie that exists, valid ratings
GateInputs == [U |-> Users, M |-> {"m1"}, R |-> {MinRating, MaxRating}, T |-> {TRUE}]

\* the review handlers and routes, one request at a time, on GateInputs
NextGate ==
    \/ ArriveCreateA({1}, 1, GateInputs)
    \/ ArriveUpdateA({1}, 1, GateInputs)
    \/ ArriveDeleteA({1}, 1, GateInputs)
    \/ ArriveRouteA({1}, 1, GateInputs)
    \/ ArriveCreateB({1}, 1, GateInputs)
    \/ ArriveUpdateB({1}, 1, GateInputs)
    \/ ContinueCreateA
    \/ ContinueUpdateA
    \/ ContinueDeleteA
    \/ ContinueCreateB
SpecGate == Init /\ [][NextGate]_vars

\* one user creating and deleting reviews of either movie id
PairInputs == [U |-> {"u1"}, M |-> MovieIds, R |-> {MinRating}, T |-> {TRUE}]

\* createReview of A and B and deleteReview, interleaved at every await
NextPairs ==
    \/ ArriveCreateA(Procs, NumProcs, PairInputs)
    \/ ArriveCreateB(Procs, NumProcs, PairInputs)
    \/ ArriveDeleteA(Procs, NumProcs, PairInputs)
    \/ ContinueCreateA
    \/ ContinueCreateB
    \/ ContinueDeleteA
SpecPairs == Init /\ [][NextPairs]_vars

(***************************************************************************)
(* Movie handlers.  A request body is the set of movie fields it carries;  *)
(* BodyValue gives the value of each, avg the averageRating it carries.    *)
(* createMovie and updateMovie hand req.body to the model as it is.        *)
(***************************************************************************)
MovieFields == {"averageRating", "totalRatings", "specs"}
Bodies == [has : SUBSET MovieFields, avg : {<<4, 1>>, <<6, 1>>}]

BodyValue(body, f) ==
    IF f = "averageRating" THEN body.avg
    ELSE 1

\* the document with the body's fields written over it
Patch(doc, body) ==
    [f \in DOMAIN doc |-> IF f \in body.has THEN BodyValue(body, f) ELSE doc[f]]

\* schema validation of the fields a body carries: averageRating min 0, max 5
BodyValid(body) ==
    "averageRating" \in body.has => InRange(body.avg, MinAverage, MaxAverage)

\* createMovie (A and B): new Movie({...req.body}).save() / Movie.create(req.body);
\* the movie gets an id no document and no review carries
CreateMovie(p, m, body, cap) ==
    /\ Free(p, cap)
    /\ ~MovieExists(m)
    /\ ReviewsOf(m) = {}
    /\ IF ~BodyValid(body)
       THEN /\ Respond(p, "createMovie", "handler", m, 400, "ValidationError")
            /\ UNCHANGED <<movies, reviews, nextId>>
       ELSE /\ movies' = [movies EXCEPT ![m] = Patch(NewMovie, body)]
            /\ Respond(p, "createMovie", "handler", m, 201, "created")
            /\ UNCHANGED <<reviews, nextId>>

\* updateMovie: Movie.findByIdAndUpdate(req.params.id, req.body, { new: true })
\* (B adds runValidators: true)
UpdateMovie(p, m, body, validators, cap) ==
    /\ Free(p, cap)
    /\ IF validators /\ ~BodyValid(body)
       THEN /\ Respond(p, "updateMovie", "handler", m, 400, "ValidationError")
            /\ UNCHANGED <<movies, reviews, nextId>>
       ELSE IF ~MovieExists(m)
       THEN /\ Respond(p, "updateMovie", "handler", m, 404, "Movie not found")
            /\ UNCHANGED <<movies, reviews, nextId>>
       ELSE /\ movies' = [movies EXCEPT ![m] = Patch(movies[m], body)]
            /\ Respond(p, "updateMovie", "handler", m, 200, "updated")
            /\ UNCHANGED <<reviews, nextId>>

\* deleteMovie (A): Movie.findByIdAndDelete, then Review.deleteMany({ movie })
DeleteMovieA_delete(p, m, cap) ==
    /\ Free(p, cap)
    /\ IF ~MovieExists(m)
       THEN /\ Respond(p, "deleteMovieA", "handler", m, 404, "Movie not found")
            /\ UNCHANGED <<movies, reviews, nextId>>
       ELSE /\ movies' = [movies EXCEPT ![m] = NoMovie]
            /\ req' = [req EXCEPT ![p] =
                         Frame("dm_reviews", "deleteMovieA", "handler", NoUser, m, 0, 0)]
            /\ Silent
            /\ UNCHANGED <<reviews, nextId>>

DeleteMovieA_reviews(p) ==
    /\ At(p, "dm_reviews")
    /\ reviews' = reviews \ ReviewsOf(req[p].movie)
    /\ Answer(p, 200, "deleted")
    /\ UNCHANGED <<movies, nextId>>

\* deleteMovie (B): Movie.findByIdAndDelete only
DeleteMovieB(p, m, cap) ==
    /\ Free(p, cap)
    /\ IF ~MovieExists(m)
       THEN /\ Respond(p, "deleteMovieB", "handler", m, 404, "Movie not found")
            /\ UNCHANGED <<movies, reviews, nextId>>
       ELSE /\ movies' = [movies EXCEPT ![m] = NoMovie]
            /\ Respond(p, "deleteMovieB", "handler", m, 204, "deleted")
            /\ UNCHANGED <<reviews, nextId>>

\* updateMovieSpecs: movie = await Movie.findById; movie.specs = req.body;
\* await movie.save().  The cast, crew, trivia, goof, soundtrack, financial and
\* production handlers have the same shape: findById, change one path that is
\* not an aggregate, save() of the modified path.
UpdateMovieSpecs_findById(p, m, cap) ==
    /\ Free(p, cap)
    /\ IF ~MovieExists(m)
       THEN /\ Respond(p, "updateSpecs", "handler", m, 404, "Movie not found")
            /\ UNCHANGED <<movies, reviews, nextId>>
       ELSE /\ req' = [req EXCEPT ![p] =
                         Frame("ms_save", "updateSpecs", "handler", NoUser, m, 0, 0)]
            /\ Silent
            /\ UNCHANGED <<movies, reviews, nextId>>

UpdateMovieSpecs_save(p) ==
    /\ At(p, "ms_save")
    /\ IF ~MovieExists(req[p].movie)
       THEN /\ Answer(p, 400, "save failed")
            /\ UNCHANGED <<movies, reviews, nextId>>
       ELSE /\ movies' = [movies EXCEPT ![req[p].movie].specs = 1]
            /\ Answer(p, 200, "updated")
            /\ UNCHANGED <<reviews, nextId>>

ArriveMovie(P, cap) ==
    \E p \in P, m \in MovieIds :
        /\ \/ \E body \in Bodies :
                 \/ CreateMovie(p, m, body, cap)
                 \/ \E validators \in BOOLEAN : UpdateMovie(p, m, body, validators, cap)
           \/ DeleteMovieA_delete(p, m, cap)
           \/ DeleteMovieB(p, m, cap)
           \/ UpdateMovieSpecs_findById(p, m, cap)
        /\ OthersUnchanged

ContinueMovie ==
    \E p \in Procs :
        /\ DeleteMovieA_reviews(p) \/ UpdateMovieSpecs_save(p)
        /\ OthersUnchanged

\* the catalogue runs: one user writing reviews, either movie id, valid ratings
MovieInputs == [U |-> {"u1"}, M |-> MovieIds, R |-> {MinRating, MaxRating}, T |-> {TRUE}]

\* the movie handlers and the review handlers of A, one request at a time
NextMovie ==
    \/ ArriveMovie({1}, 1)
    \/ ArriveCreateA({1}, 1, MovieInputs)
    \/ ArriveUpdateA({1}, 1, MovieInputs)
    \/ ArriveDeleteA({1}, 1, MovieInputs)
    \/ ContinueMovie
    \/ ContinueCreateA
    \/ ContinueUpdateA
    \/ ContinueDeleteA
SpecMovie == Init /\ [][NextMovie]_vars

(***************************************************************************)
(* Lists (controllers/list.controller.js, whose first half, suffixed A,    *)
(* takes req.params.id and whose second half, suffixed B, takes            *)
(* req.params.listId).  Arrays are sequences.  save() of a loaded document *)
(* sends what was changed on it: a push as $push, a pull as $pull, an      *)
(* assigned array as $set.                                                 *)
(***************************************************************************)
InSeq(x, s) == \E i \in 1..Len(s) : s[i] = x

RECURSIVE Without(_, _)
\* array.filter(y => y !== x) / $pull: every occurrence of x removed
Without(s, x) ==
    IF s = <<>> THEN <<>>
    ELSE IF Head(s) = x THEN Without(Tail(s), x)
    ELSE <<Head(s)>> \o Without(Tail(s), x)

RECURSIVE Populated(_)
\* populate('movies'): ids that resolve to no Movie document are dropped
Populated(s) ==
    IF s = <<>> THEN <<>>
    ELSE IF MovieExists(Head(s)) THEN <<Head(s)>> \o Populated(Tail(s))
    ELSE Populated(Tail(s))

\* the locals of a list or wishlist handler waiting for its save()
SaveFrame(pc, op, u, l, m, delta, arr) ==
    [pc |-> pc, op |-> op, via |-> "handler", user |-> u, list |-> l, movie |-> m,
     delta |-> delta, arr |-> arr]

\* the array after the delta of a save() is applied to the stored array
Applied(stored, delta, x, arr) ==
    IF delta = "push" THEN Append(stored, x)
    ELSE IF delta = "pull" THEN Without(stored, x)
    ELSE arr

ListNames == {"n0", "n1"}

\* createList: new List({...req.body, creator: req.user._id}).save()
\* (B: List.create({name, description, creator, movies, isPublic}))
CreateList(p, u, name, pub, cap) ==
    /\ Free(p, cap)
    /\ \E l \in ListIds :
          /\ ~lists[l].exists
          /\ lists' = [lists EXCEPT ![l] =
                         [exists |-> TRUE, creator |-> u, name |-> name,
                          movies |-> <<>>, followers |-> <<>>, isPublic |-> pub]]
    /\ Respond(p, "createList", "handler", "none", 201, "created")
    /\ UNCHANGED <<ReviewStore, users>>

\* updateList: List.findOneAndUpdate({_id, creator: req.user._id}, {...req.body})
UpdateList(p, u, l, name, pub, cap) ==
    /\ Free(p, cap)
    /\ IF ~(lists[l].exists /\ lists[l].creator = u)
       THEN /\ Respond(p, "updateList", "handler", "none", 404, "List not found or unauthorized")
            /\ UNCHANGED <<ReviewStore, users, lists>>
       ELSE /\ lists' = [lists EXCEPT ![l].name = name, ![l].isPublic = pub]
            /\ Respond(p, "updateList", "handler", "none", 200, "updated")
            /\ UNCHANGED <<ReviewStore, users>>

\* deleteList: List.findOneAndDelete({_id, creator: req.user._id})
DeleteList(p, u, l, cap) ==
    /\ Free(p, cap)
    /\ IF ~(lists[l].exists /\ lists[l].creator = u)
       THEN /\ Respond(p, "deleteList", "handler", "none", 404, "List not found or unauthorized")
            /\ UNCHANGED <<ReviewStore, users, lists>>
       ELSE /\ lists' = [lists EXCEPT ![l] = NoList]
            /\ Respond(p, "deleteList", "handler", "none", 200, "deleted")
            /\ UNCHANGED <<ReviewStore, users>>

\* followList (A): List.findById; 404 for a missing list or a private list of
\* another user; pull when the principal follows, push when not
FollowListA_findById(p, u, l, cap) ==
    /\ Free(p, cap)
    /\ IF ~lists[l].exists \/ (~lists[l].isPublic /\ lists[l].creator # u)
       THEN /\ Respond(p, "followA", "handler", "none", 404, "List not found")
            /\ UNCHANGED <<ReviewStore, users, lists>>
       ELSE /\ req' = [req EXCEPT ![p] =
                         SaveFrame("fA_save", "followA", u, l, "none",
                                   IF InSeq(u, lists[l].followers) THEN "pull" ELSE "push",
                                   <<>>)]
            /\ Silent
            /\ UNCHANGED <<ReviewStore, users, lists>>

\* followList (B): List.findById; 404 for a missing list; push and save only
\* when the principal does not follow yet
FollowListB_findById(p, u, l, cap) ==
    /\ Free(p, cap)
    /\ IF ~lists[l].exists
       THEN /\ Respond(p, "followB", "handler", "none", 404, "List not found")
            /\ UNCHANGED <<ReviewStore, users, lists>>
       ELSE IF InSeq(u, lists[l].followers)
       THEN /\ Respond(p, "followB", "handler", "none", 200, "List followed successfully")
            /\ UNCHANGED <<ReviewStore, users, lists>>
       ELSE /\ req' = [req EXCEPT ![p] =
                         SaveFrame("fB_save", "followB", u, l, "none", "push", <<>>)]
            /\ Silent
            /\ UNCHANGED <<ReviewStore, users, lists>>

\* await list.save() of followList; the document may be gone by then
FollowList_save(p) ==
    /\ req[p].pc \in {"fA_save", "fB_save"}
    /\ LET l == req[p].list IN
       IF ~lists[l].exists
       THEN /\ Answer(p, 400, "save failed")
            /\ UNCHANGED <<ReviewStore, users, lists>>
       ELSE /\ lists' = [lists EXCEPT ![l].followers =
                           Applied(@, req[p].delta, req[p].user, req[p].arr)]
            /\ Answer(p, 200, "followed")
            /\ UNCHANGED <<ReviewStore, users>>

\* addMovieToList: List.findById(...).populate('movies'); 404 unless the
\* principal is the creator; 400 when the populated array holds the movie
AddMovieToList_findById(p, u, l, m, cap) ==
    /\ Free(p, cap)
    /\ IF ~(lists[l].exists /\ lists[l].creator = u)
       THEN /\ Respond(p, "addMovie", "handler", m, 404, "List not found or unauthorized")
            /\ UNCHANGED <<ReviewStore, users, lists>>
       ELSE IF InSeq(m, Populated(lists[l].movies))
       THEN /\ Respond(p, "addMovie", "handler", m, 400, "Movie already in the list")
            /\ UNCHANGED <<ReviewStore, users, lists>>
       ELSE /\ req' = [req EXCEPT ![p] =
                         SaveFrame("am_save", "addMovie", u, l, m, "push", <<>>)]
            /\ Silent
            /\ UNCHANGED <<ReviewStore, users, lists>>

\* removeMovieFromList: as above; 400 when the populated array does not hold
\* the movie; list.movies = the populated array without it
RemoveMovieFromList_findById(p, u, l, m, cap) ==
    /\ Free(p, cap)
    /\ IF ~(lists[l].exists /\ lists[l].creator = u)
       THEN /\ Respond(p, "removeMovie", "handler", m, 404, "List not found or unauthorized")
            /\ UNCHANGED <<ReviewStore, users, lists>>
       ELSE IF ~InSeq(m, Populated(lists[l].movies))
       THEN /\ Respond(p, "removeMovie", "handler", m, 400, "Movie not in the list")
            /\ UNCHANGED <<ReviewStore, users, lists>>
       ELSE /\ req' = [req EXCEPT ![p] =
                         SaveFrame("rm_save", "removeMovie", u, l, m, "set",
                                   Without(Populated(lists[l].movies), m))]
            /\ Silent
            /\ UNCHANGED <<ReviewStore, users, lists>>

\* await list.save() of addMovieToList / removeMovieFromList
ListMovies_save(p) ==
    /\ req[p].pc \in {"am_save", "rm_save"}
    /\ LET l == req[p].list IN
       IF ~lists[l].exists
       THEN /\ Answer(p, 500, "save failed")
            /\ UNCHANGED <<ReviewStore, users, lists>>
       ELSE /\ lists' = [lists EXCEPT ![l].movies =
                           Applied(@, req[p].delta, req[p].movie, req[p].arr)]
            /\ Answer(p, IF req[p].pc = "am_save" THEN 201 ELSE 200, "saved")
            /\ UNCHANGED <<ReviewStore, users>>

(***************************************************************************)
(* Wishlist.  Handlers suffixed A are those of the profile controller      *)
(* (controllers/recommendation.controller.js, second half), handlers       *)
(* suffixed B those of the user controller.  ":movieId" may be a string    *)
(* that is no ObjectId.                                                    *)
(***************************************************************************)
NotAnId == "zz"
WishIds == MovieIds \cup {NotAnId}

\* mongoose.Types.ObjectId.isValid(movieId)
IsValidObjectId(m) == m # NotAnId

\* addToWishlist (A): 400 for an invalid id or a movie already there; push
AddToWishlistA_findById(p, u, m, cap) ==
    /\ Free(p, cap)
    /\ UNCHANGED <<ReviewStore, users, lists>>
    /\ IF ~IsValidObjectId(m)
       THEN Respond(p, "addWishA", "handler", m, 400, "Invalid movie ID")
       ELSE IF ~users[u].exists
       THEN Respond(p, "addWishA", "handler", m, 500, "TypeError")
       ELSE IF InSeq(m, users[u].wishlist)
       THEN Respond(p, "addWishA", "handler", m, 400, "Movie is already in wishlist")
       ELSE /\ req' = [req EXCEPT ![p] =
                         SaveFrame("wA_save", "addWishA", u, "none", m, "push", <<>>)]
            /\ Silent

\* removeFromWishlist (A): 400 for an invalid id or a movie not there;
\* user.wishlist = user.wishlist.filter(...)
RemoveFromWishlistA_findById(p, u, m, cap) ==
    /\ Free(p, cap)
    /\ UNCHANGED <<ReviewStore, users, lists>>
    /\ IF ~IsValidObjectId(m)
       THEN Respond(p, "removeWishA", "handler", m, 400, "Invalid movie ID")
       ELSE IF ~users[u].exists
       THEN Respond(p, "removeWishA", "handler", m, 500, "TypeError")
       ELSE IF ~InSeq(m, users[u].wishlist)
       THEN Respond(p, "removeWishA", "handler", m, 400, "Movie is not in wishlist")
       ELSE /\ req' = [req EXCEPT ![p] =
                         SaveFrame("wA_save", "removeWishA", u, "none", m, "set",
                                   Without(users[u].wishlist, m))]
            /\ Silent

\* addToWishlist (B): includes() casts movieId; push and save only when the
\* movie is not there; 200 either way
AddToWishlistB_findById(p, u, m, cap) ==
    /\ Free(p, cap)
    /\ UNCHANGED <<ReviewStore, users, lists>>
    /\ IF ~users[u].exists
       THEN Respond(p, "addWishB", "handler", m, 400, "TypeError")
       ELSE IF ~IsValidObjectId(m)
       THEN Respond(p, "addWishB", "handler", m, 400, "CastError")
       ELSE IF InSeq(m, users[u].wishlist)
       THEN Respond(p, "addWishB", "handler", m, 200, "Movie added to wishlist")
       ELSE /\ req' = [req EXCEPT ![p] =
                         SaveFrame("wB_save", "addWishB", u, "none", m, "push", <<>>)]
            /\ Silent

\* removeFromWishlist (B): user.wishlist = user.wishlist.filter(id =>
\* id.toString() !== movieId); save; 200
RemoveFromWishlistB_findById(p, u, m, cap) ==
    /\ Free(p, cap)
    /\ UNCHANGED <<ReviewStore, users, lists>>
    /\ IF ~users[u].exists
       THEN Respond(p, "removeWishB", "handler", m, 400, "TypeError")
       ELSE /\ req' = [req EXCEPT ![p] =
                         SaveFrame("wB_save", "removeWishB", u, "none", m, "set",
                                   Without(users[u].wishlist, m))]
            /\ Silent

\* await user.save() of a wishlist handler (A answers 500 on an error, B 400)
Wishlist_save(p) ==
    /\ req[p].pc \in {"wA_save", "wB_save"}
    /\ LET u == req[p].user IN
       IF ~users[u].exists
       THEN /\ Answer(p, IF req[p].pc = "wA_save" THEN 500 ELSE 400, "save failed")
            /\ UNCHANGED <<ReviewStore, users, lists>>
       ELSE /\ users' = [users EXCEPT ![u].wishlist =
                           Applied(@, req[p].delta, req[p].movie, req[p].arr)]
            /\ Answer(p, 200, "saved")
            /\ UNCHANGED <<ReviewStore, lists>>

(***************************************************************************)
(* Specifications of the list and wishlist handlers.                       *)
(***************************************************************************)
ArriveList(P, cap) ==
    /\ \E p \in P, u \in Users :
        \/ \E name \in ListNames, pub \in BOOLEAN : CreateList(p, u, name, pub, cap)
        \/ \E l \in ListIds :
              \/ \E name \in ListNames, pub \in BOOLEAN : UpdateList(p, u, l, name, pub, cap)
              \/ DeleteList(p, u, l, cap)
              \/ FollowListA_findById(p, u, l, cap)
              \/ FollowListB_findById(p, u, l, cap)
    /\ NoPayload

ArriveListMovies(P, cap) ==
    /\ \E p \in P, u \in Users, l \in ListIds, m \in MovieIds :
        \/ /\ lists[l].exists => Len(lists[l].movies) < MaxArray
           /\ AddMovieToList_findById(p, u, l, m, cap)
        \/ RemoveMovieFromList_findById(p, u, l, m, cap)
    /\ NoPayload

ContinueFollow ==
    \E p \in Procs : FollowList_save(p) /\ NoPayload

ContinueListMovies ==
    \E p \in Procs : ListMovies_save(p) /\ NoPayload

ArriveWishlist(P, cap, U) ==
    /\ \E p \in P, u \in U, m \in WishIds :
        \/ AddToWishlistA_findById(p, u, m, cap)
        \/ RemoveFromWishlistA_findById(p, u, m, cap)
        \/ AddToWishlistB_findById(p, u, m, cap)
        \/ RemoveFromWishlistB_findById(p, u, m, cap)
    /\ NoPayload

ContinueWishlist ==
    \E p \in Procs : Wishlist_save(p) /\ NoPayload

\* createList, updateList, deleteList and followList, one request at a time
NextLists ==
    \/ ArriveList({1}, 1)
    \/ ContinueFollow
SpecLists == Init /\ [][NextLists]_vars

\* a list of u1 is created; then the membership handlers of lists and of
\* u1's wishlist, one request at a time
NextMembership ==
    \/ \E pub \in BOOLEAN : CreateList(1, "u1", "n0", pub, 1) /\ NoPayload
    \/ ArriveListMovies({1}, 1)
    \/ ArriveWishlist({1}, 1, {"u1"})
    \/ ContinueListMovies
    \/ ContinueWishlist
SpecMembership == Init /\ [][NextMembership]_vars

(***************************************************************************)
(* Recommendations (controllers/recommendation.controller.js).             *)
(***************************************************************************)
\* .limit(10)
RecommendLimit == 10

\* the preferences updateUserPreferences is sent; a field the body lacks is
\* read back as an empty array
PreferenceBodies ==
    [favoriteGenres : SUBSET {"action"}, favoriteActors : SUBSET {"a1"},
     favoriteDirectors : SUBSET {"d1"}, contentRating : SUBSET {"G"},
     languages : SUBSET {"en"}]

\* a query that matches every movie
AnyFilm(prefs, film) == TRUE

\* the $or of the query without the two restrictions
FavouritesOnly(prefs, film) ==
    \/ film.genre \cap prefs.favoriteGenres # {}
    \/ film.cast \cap prefs.favoriteActors # {}
    \/ film.crew \cap prefs.favoriteDirectors # {}

\* the query of getRecommendations on one movie: $or of three $in, and the
\* two restrictions that are part of the query only for a non-empty array
Matches(prefs, film) ==
    /\ \/ film.genre \cap prefs.favoriteGenres # {}
       \/ film.cast \cap prefs.favoriteActors # {}
       \/ film.crew \cap prefs.favoriteDirectors # {}
    /\ Cardinality(prefs.contentRating) > 0 => film.ageRating \in prefs.contentRating
    /\ Cardinality(prefs.languages) > 0 => film.language \cap prefs.languages # {}

\* the documents Movie.find(query) matches: _id not in user.watchedMovies
Recommended(u) ==
    {m \in DOMAIN movies :
        /\ MovieExists(m)
        /\ m \notin users[u].watchedMovies
        /\ Matches(users[u].preferences, catalog[m])}

\* getRecommendations: User.findById, Movie.find(query).limit(10); no sort is
\* given, so which documents the limit keeps is the store's choice
GetRecommendations(p, u, cap) ==
    /\ Free(p, cap)
    /\ UNCHANGED <<ReviewStore, users, lists, catalog, profile, reminders, released>>
    /\ IF ~users[u].exists
       THEN /\ Respond(p, "recommend", "handler", "none", 500, "TypeError")
            /\ result' = NoResult
       ELSE /\ Respond(p, "recommend", "handler", "none", 200, "movies")
            /\ IF Cardinality(Recommended(u)) <= RecommendLimit
               THEN result' = [user |-> u, movies |-> Recommended(u)]
               ELSE \E S \in SUBSET Recommended(u) :
                       /\ Cardinality(S) = RecommendLimit
                       /\ result' = [user |-> u, movies |-> S]

\* updateUserPreferences: User.findByIdAndUpdate(req.user.id, { preferences })
UpdateUserPreferences(p, u, prefs, cap) ==
    /\ Free(p, cap)
    /\ NoPayload
    /\ UNCHANGED <<ReviewStore, lists>>
    /\ IF ~users[u].exists
       THEN /\ Respond(p, "preferences", "handler", "none", 404, "User not found")
            /\ UNCHANGED users
       ELSE /\ users' = [users EXCEPT ![u].preferences = prefs]
            /\ Respond(p, "preferences", "handler", "none", 200, "updated")

\* a catalogue: any film as m1; m2 absent, a copy of it, or a French drama
\* rated R without cast and crew; the further movies absent or all there as
\* copies of m1's film
InitRecommend ==
    /\ \E a \in Films, S \in {{"m1"}, MovieIds, CatalogIds}, copy \in BOOLEAN :
          /\ catalog = [m \in CatalogIds |->
                          IF m = "m2" /\ ~copy
                          THEN [genre |-> {"drama"}, cast |-> {}, crew |-> {},
                                ageRating |-> "R", language |-> {"fr"}]
                          ELSE a]
          /\ movies = [m \in CatalogIds |-> IF m \in S THEN NewMovie ELSE NoMovie]
    /\ reviews = {}
    /\ nextId = 1
    /\ req = [p \in Procs |-> Idle]
    /\ resp = NoResp
    /\ users = [u \in Users |-> NewAccount]
    /\ lists = [l \in ListIds |-> NoList]
    /\ result = NoResult
    /\ profile = [a \in AccountIds |-> NoAccount]
    /\ reminders = {}
    /\ released = FALSE

\* u1 sets preferences and asks for recommendations, on every catalogue
NextRecommend ==
    \/ \E prefs \in PreferenceBodies : UpdateUserPreferences(1, "u1", prefs, 1)
    \/ GetRecommendations(1, "u1", 1)
SpecRecommend == InitRecommend /\ [][NextRecommend]_vars

\* u1 sets preferences, reviews m1 and asks for recommendations
NextRated ==
    \/ \E prefs \in PreferenceBodies : UpdateUserPreferences(1, "u1", prefs, 1)
    \/ ArriveCreateA({1}, 1, [U |-> {"u1"}, M |-> {"m1"}, R |-> {MaxRating}, T |-> {TRUE}])
    \/ ContinueCreateA
    \/ GetRecommendations(1, "u1", 1)
SpecRated == Init /\ [][NextRated]_vars

(***************************************************************************)
(* Review handlers of A for different movies side by side: both movies     *)
(* exist, and a request for a movie arrives only while no other request    *)
(* for that movie is in flight, so any overlap is between two movies.  A    *)
(* request is taken by the first idle process: which process serves it     *)
(* makes no difference to the store.                                       *)
(***************************************************************************)
MovieBusy(m) == \E q \in InFlight : req[q].movie = m

InitApart ==
    /\ movies = [m \in MovieIds |-> NewMovie]
    /\ reviews = {}
    /\ nextId = 1
    /\ req = [p \in Procs |-> Idle]
    /\ resp = NoResp
    /\ users = [u \in Users |-> NewAccount]
    /\ lists = [l \in ListIds |-> NoList]
    /\ catalog = [m \in CatalogIds |-> [genre |-> {"action"}, cast |-> {"a1"},
                    crew |-> {"d1"}, ageRating |-> "G", language |-> {"en"}]]
    /\ result = NoResult
    /\ profile = [a \in AccountIds |-> NoAccount]
    /\ reminders = {}
    /\ released = FALSE

ArriveApart ==
    \E p \in Procs, u \in {"u1", "u2"} :
        /\ \A q \in Procs : q < p => req[q].pc # "idle"
        /\ \/ \E m \in MovieIds, r \in {MinRating, MaxRating} :
                 ~MovieBusy(m) /\ CreateReviewA_save(p, u, m, r, TRUE, NumProcs)
           \/ \E rid \in ReviewIds, r \in {MinRating, MaxRating} :
                 /\ \A x \in ReviewById(rid) : ~MovieBusy(x.movie)
                 /\ UpdateReviewA_begin(p, u, rid, r, NumProcs)
           \/ \E rid \in ReviewIds :
                 /\ \A x \in ReviewById(rid) : ~MovieBusy(x.movie)
                 /\ DeleteReviewA_begin(p, u, rid, NumProcs)
        /\ OthersUnchanged

NextApart ==
    \/ ArriveApart
    \/ ContinueCreateA
    \/ ContinueUpdateA
    \/ ContinueDeleteA
SpecApart == InitApart /\ [][NextApart]_vars

(***************************************************************************)
(* Routes behind the middleware (middleware/auth.middleware.js).  A token  *)
(* is absent, one that jwt.verify rejects (malformed, wrong signature,     *)
(* expired), or one that login or register signed for a user id; a signed  *)
(* token stays verifiable after its user is deleted; the signed tokens are *)
(* those of one ordinary user and of the admin.  authenticate's            *)
(* User.findById and the first store operation of the handler behind it    *)
(* are one step here: the routes are run one request at a time.            *)
(***************************************************************************)
Tokens ==
    [kind : {"none", "bad"}, userId : {NoUser}]
        \cup [kind : {"good"}, userId : {"u1", "adm"}]

\* an authenticate that does not look the user up
TrustToken(t) ==
    IF t.kind = "none" THEN "Authentication required"
    ELSE IF t.kind = "bad" THEN "Invalid token"
    ELSE "next"

\* authenticate: the message of its 401, or "next" when it calls next()
Authenticate(t) ==
    IF t.kind = "none" THEN "Authentication required"
    ELSE IF t.kind = "bad" THEN "Invalid token"
    ELSE IF ~users[t.userId].exists THEN "User not found"
    ELSE "next"

\* a deletion that also removes what the user wrote
CascadingDelete(p, u, cap) ==
    /\ Free(p, cap)
    /\ users' = [users EXCEPT ![u] = NoAccount]
    /\ reviews' = {x \in reviews : x.user # u}
    /\ Respond(p, "deleteProfile", "handler", "none", 200, "User profile deleted successfully")
    /\ UNCHANGED <<movies, nextId, lists>>
    /\ NoPayload

\* deleteUserProfile: User.findByIdAndDelete(req.user.id)
DeleteUserProfile(p, u, cap) ==
    /\ Free(p, cap)
    /\ users' = [users EXCEPT ![u] = NoAccount]
    /\ Respond(p, "deleteProfile", "handler", "none", 200, "User profile deleted successfully")
    /\ UNCHANGED <<ReviewStore, lists>>
    /\ NoPayload

\* router.post('/', authenticate, isAdmin, createMovie), router.put('/:id', ...),
\* router.delete('/:id', ...), router.put('/:movieId/specs', ...): every movie
\* route that changes a movie, except the additions of trivia and goofs, names
\* authenticate and isAdmin before its handler
MovieRoute(p, t, m, cap) ==
    /\ Free(p, cap)
    /\ IF Authenticate(t) # "next"
       THEN /\ Respond(p, "movieRoute", "route", m, 401, Authenticate(t))
            /\ UNCHANGED ReviewStore
       ELSE IF ~IsAdmin(t.userId)
       THEN /\ Respond(p, "movieRoute", "route", m, 403, "Admin access required")
            /\ UNCHANGED ReviewStore
       ELSE \/ \E body \in {b \in Bodies : b.has = {"specs"}} :
                 CreateMovie(p, m, body, cap) \/ UpdateMovie(p, m, body, FALSE, cap)
            \/ DeleteMovieA_delete(p, m, cap)
            \/ UpdateMovieSpecs_findById(p, m, cap)
    /\ OthersUnchanged

\* router.delete('/delete', authenticate, deleteUserProfile),
\* router.post('/wishlist/:movieId', authenticate, addToWishlist),
\* router.post('/', authenticate, reviewController.createReview)
UserRoute(p, t, cap) ==
    /\ Free(p, cap)
    /\ IF Authenticate(t) # "next"
       THEN /\ Respond(p, "userRoute", "route", "none", 401, Authenticate(t))
            /\ UNCHANGED <<ReviewStore, users, lists>>
            /\ NoPayload
       ELSE \/ DeleteUserProfile(p, t.userId, cap)
            \/ AddToWishlistA_findById(p, t.userId, "m1", cap) /\ NoPayload
            \/ /\ CreateReviewA_save(p, t.userId, "m1", MaxRating, TRUE, cap)
               /\ OthersUnchanged

NextRoutes ==
    \/ \E t \in Tokens, m \in MovieIds : MovieRoute(1, t, m, 1)
    \/ \E t \in Tokens : UserRoute(1, t, 1)
    \/ ContinueMovie
    \/ ContinueCreateA
    \/ ContinueWishlist
SpecRoutes == Init /\ [][NextRoutes]_vars

(***************************************************************************)
(* A store operation that fails.  The awaited call rejects, the handler's  *)
(* catch block answers and the handler ends; nothing was written by the    *)
(* failed operation.  createReview and updateReview of A and followList    *)
(* (the first of list.controller.js) all catch with res.status(400).       *)
(***************************************************************************)
StoreFails(p) ==
    /\ req[p].pc \in {"cA_find", "cA_upd", "uA_write", "uA_find", "uA_upd", "fA_save"}
    /\ Answer(p, 400, "store error")
    /\ UNCHANGED <<ReviewStore, users, lists>>
    /\ NoPayload

\* the three handlers, one request at a time, any later store operation may fail
SpecFail ==
    Init /\ [][\/ ArriveCreateA({1}, 1, MovieInputs)
               \/ ArriveUpdateA({1}, 1, MovieInputs)
               \/ ArriveList({1}, 1)
               \/ ContinueCreateA
               \/ ContinueUpdateA
               \/ ContinueFollow
               \/ \E p \in Procs : StoreFails(p)]_vars

(***************************************************************************)
(* updateReview and deleteReview of A on the same review, interleaved at   *)
(* every await; the reviews they work on are created one at a time.        *)
(***************************************************************************)
SpecStale ==
    Init /\ [][\/ ArriveCreateA({1}, 1, GateInputs)
               \/ ArriveUpdateA(Procs, NumProcs, [U |-> {"u1"}, R |-> {MaxRating}])
               \/ ArriveDeleteA(Procs, NumProcs, [U |-> {"u1"}])
               \/ ContinueCreateA
               \/ ContinueUpdateA
               \/ ContinueDeleteA]_vars

(***************************************************************************)
(* addToWishlist of both controllers for one user, interleaved at every    *)
(* await.                                                                  *)
(***************************************************************************)
SpecWish ==
    Init /\ [][\/ \E p \in Procs, m \in MovieIds :
                    AddToWishlistA_findById(p, "u1", m, NumProcs) /\ NoPayload
               \/ \E p \in Procs, m \in MovieIds :
                    AddToWishlistB_findById(p, "u1", m, NumProcs) /\ NoPayload
               \/ ContinueWishlist]_vars

(***************************************************************************)
(* register (part_005) and the profile updates.  userSchema declares       *)
(* username and email unique: the store refuses a write that would give    *)
(* two documents the same value (E11000), whatever the handler checked.    *)
(* An absent body field is "".                                             *)
(***************************************************************************)
\* a collection without the unique indexes
NeverTaken(f, v, a) == FALSE

\* unique: true -- another document already holds value v in field f
Taken(f, v, a) ==
    \E b \in AccountIds \ {a} : profile[b].exists /\ profile[b][f] = v

\* existingUser = await User.findOne({ $or: [{ email }, { username }] })
Register_findOne(p, name, email, role, cap) ==
    /\ Free(p, cap)
    /\ IF \E b \in AccountIds :
            profile[b].exists /\ (profile[b].email = email \/ profile[b].username = name)
       THEN Respond(p, "register", "handler", "none", 400, "Username or email already exists")
       ELSE /\ req' = [req EXCEPT ![p] =
                         [pc |-> "rg_save", op |-> "register", via |-> "handler",
                          movie |-> "none", username |-> name, email |-> email,
                          role |-> role]]
            /\ Silent
    /\ UNCHANGED profile

\* const user = new User({ username, email, password, role }); await user.save()
Register_save(p) ==
    /\ At(p, "rg_save")
    /\ \E b \in AccountIds : ~profile[b].exists
    /\ LET a == CHOOSE b \in AccountIds : ~profile[b].exists IN
          /\ IF Taken("username", req[p].username, a) \/ Taken("email", req[p].email, a)
             THEN /\ Answer(p, 500, "Error creating user")
                  /\ UNCHANGED profile
             ELSE /\ profile' = [profile EXCEPT ![a] =
                                   [exists |-> TRUE, username |-> req[p].username,
                                    email |-> req[p].email, role |-> req[p].role]]
                  /\ Answer(p, 201, "registered")

\* updateUserProfile: User.findByIdAndUpdate(req.user.id, updatedData, { new: true })
\* with the username and the email the body carries
UpdateUserProfile(p, a, name, email, cap) ==
    /\ Free(p, cap)
    /\ IF ~profile[a].exists
       THEN /\ Respond(p, "updateUserProfile", "handler", "none", 404, "User not found")
            /\ UNCHANGED profile
       ELSE IF \/ name # "" /\ Taken("username", name, a)
               \/ email # "" /\ Taken("email", email, a)
       THEN /\ Respond(p, "updateUserProfile", "handler", "none", 500, "Error updating profile")
            /\ UNCHANGED profile
       ELSE /\ profile' = [profile EXCEPT
                             ![a].username = IF name # "" THEN name ELSE @,
                             ![a].email = IF email # "" THEN email ELSE @]
            /\ Respond(p, "updateUserProfile", "handler", "none", 200, "Profile updated successfully")

\* updateProfile (part_003): User.findByIdAndUpdate(req.user._id,
\* { username, preferences }, { new: true, runValidators: true })
UpdateProfile(p, a, name, cap) ==
    /\ Free(p, cap)
    /\ IF ~profile[a].exists
       THEN /\ Respond(p, "updateProfile", "handler", "none", 200, "success")
            /\ UNCHANGED profile
       ELSE IF name # "" /\ Taken("username", name, a)
       THEN /\ Respond(p, "updateProfile", "handler", "none", 400, "E11000")
            /\ UNCHANGED profile
       ELSE /\ profile' = [profile EXCEPT
                             ![a].username = IF name # "" THEN name ELSE @]
            /\ Respond(p, "updateProfile", "handler", "none", 200, "success")

\* what the account handlers leave alone
AccountFrame ==
    /\ UNCHANGED <<ReviewStore, users, lists, catalog, reminders, released>>
    /\ result' = NoResult

\* register and the profile updates of the registered accounts, interleaved at
\* every await
SpecAccounts ==
    Init /\ [][\/ \E p \in Procs, name \in {"ann", "bob"}, email \in {"a@x", "b@x"},
                     role \in {"user", "admin"} :
                    Register_findOne(p, name, email, role, NumProcs) /\ AccountFrame
               \/ \E p \in Procs : Register_save(p) /\ AccountFrame
               \/ \E p \in Procs, a \in AccountIds, name \in {"", "ann", "bob"},
                     email \in {"", "a@x", "b@x"} :
                    /\ profile[a].exists
                    /\ UpdateUserProfile(p, a, name, email, NumProcs)
                    /\ AccountFrame
               \/ \E p \in Procs, a \in AccountIds, name \in {"", "ann", "bob"} :
                    /\ profile[a].exists
                    /\ UpdateProfile(p, a, name, NumProcs)
                    /\ AccountFrame]_vars

(***************************************************************************)
(* Reminders: setReminder (part_000) and the daily job (part_007).  A      *)
(* reminder's reminderDate is the release date of its movie; the movies    *)
(* are upcoming until their release date passes (released), so a reminder  *)
(* is due exactly when released holds.  sendMail can succeed or reject.    *)
(* The job's forEach starts one async callback per reminder found: each    *)
(* builds its mail from the populated user and movie (a TypeError when     *)
(* either is gone, and then nothing is sent), awaits sendMail and then     *)
(* saves notified = true.  No handler deletes a reminder.                  *)
(***************************************************************************)
\* a find without the notified: false condition
EveryDueReminder == {r \in reminders : released}

\* Reminder.find({ reminderDate: { $lte: today }, notified: false })
DueReminders == {r \in reminders : released /\ ~r.notified}

\* what the reminder handlers and the job leave alone
ReminderFrame ==
    /\ UNCHANGED <<ReviewStore, users, lists, catalog, profile, released>>
    /\ result' = NoResult

\* a job callback set that has nothing left to do is gone
JobFrame(sending, saving) ==
    IF sending = {} /\ saving = {} THEN Idle
    ELSE [pc |-> "job", op |-> "job", via |-> "cron", movie |-> "none",
          sending |-> sending, saving |-> saving]

\* movie = await Movie.findById(movieId); user = await User.findById(userId);
\* 404 when the movie is missing or new Date(movie.releaseDate) < new Date()
SetReminder_findById(p, u, m, cap) ==
    /\ Free(p, cap)
    /\ IF ~MovieExists(m) \/ released
       THEN Respond(p, "setReminder", "handler", m, 404, "Movie not found or already released")
       ELSE /\ req' = [req EXCEPT ![p] =
                         [pc |-> "sr_create", op |-> "setReminder", via |-> "handler",
                          movie |-> m, user |-> u, ufound |-> users[u].exists]]
            /\ Silent
    /\ UNCHANGED reminders
    /\ ReminderFrame

\* await Reminder.create({ userId, movieId, reminderDate, notified: false });
\* building the mail then reads user.email, a TypeError when user is null
SetReminder_create(p) ==
    /\ At(p, "sr_create")
    /\ Cardinality(reminders) < MaxReminders
    /\ reminders' = reminders \cup
          {[id |-> Cardinality(reminders) + 1, userId |-> req[p].user,
            movieId |-> req[p].movie, notified |-> FALSE]}
    /\ IF ~req[p].ufound
       THEN Answer(p, 500, "Error setting reminder or sending email")
       ELSE req' = [req EXCEPT ![p].pc = "sr_mail"] /\ Silent
    /\ ReminderFrame

\* await transporter.sendMail(mailOptions); res.json(...) -- or the catch
SetReminder_sendMail(p, ok) ==
    /\ At(p, "sr_mail")
    /\ IF ok THEN Answer(p, 200, "Reminder set")
       ELSE Answer(p, 500, "Error setting reminder or sending email")
    /\ UNCHANGED reminders
    /\ ReminderFrame

\* the cron callback: the find, and for every reminder found whose user and
\* movie populate, the call of sendMail
Job_find(p, cap) ==
    /\ Free(p, cap)
    /\ req' = [req EXCEPT ![p] =
                 JobFrame({r.id : r \in {x \in DueReminders :
                              users[x.userId].exists /\ MovieExists(x.movieId)}}, {})]
    /\ Silent
    /\ UNCHANGED reminders
    /\ ReminderFrame

\* await transporter.sendMail(mailOptions) of the callback for reminder i
\* resolves or rejects; a rejection ends the callback
Job_sendMail(p, i, ok) ==
    /\ At(p, "job")
    /\ i \in req[p].sending
    /\ req' = [req EXCEPT ![p] =
                 JobFrame(req[p].sending \ {i},
                          IF ok THEN req[p].saving \cup {i} ELSE req[p].saving)]
    /\ Silent
    /\ UNCHANGED reminders
    /\ ReminderFrame

\* reminder.notified = true; await reminder.save()
Job_save(p, i) ==
    /\ At(p, "job")
    /\ i \in req[p].saving
    /\ reminders' = {IF r.id = i THEN [r EXCEPT !.notified = TRUE] ELSE r : r \in reminders}
    /\ req' = [req EXCEPT ![p] = JobFrame(req[p].sending, req[p].saving \ {i})]
    /\ Silent
    /\ ReminderFrame

\* the release date of the upcoming movies passes
DayPasses ==
    /\ ~released
    /\ released' = TRUE
    /\ resp' = NoResp
    /\ result' = NoResult
    /\ UNCHANGED <<ReviewStore, req, users, lists, catalog, profile, reminders>>

\* setReminder requests of one user, who passed authenticate, as long as the
\* bound leaves room for their reminder; the job's runs, which may overlap;
\* and the user's deleteUserProfile
NextReminders ==
    \/ \E p \in Procs, m \in MovieIds :
          /\ users["u1"].exists
          /\ Cardinality(reminders) + Cardinality({q \in Procs : req[q].pc = "sr_create"})
                < MaxReminders
          /\ SetReminder_findById(p, "u1", m, NumProcs)
    \/ \E p \in Procs : SetReminder_create(p)
    \/ \E p \in Procs, ok \in BOOLEAN : SetReminder_sendMail(p, ok)
    \/ \E p \in Procs : Job_find(p, NumProcs)
    \/ \E p \in Procs, i \in 1..MaxReminders, ok \in BOOLEAN : Job_sendMail(p, i, ok)
    \/ \E p \in Procs, i \in 1..MaxReminders : Job_save(p, i)
    \/ DayPasses
    \/ \E p \in Procs : DeleteUserProfile(p, "u1", NumProcs)
SpecReminders == Init /\ [][NextReminders]_vars

\* the job keeps running, every started step completes, and the send for a
\* reminder that is tried again and again eventually succeeds
SpecRemindersFair ==
    /\ SpecReminders
    /\ WF_vars(DayPasses)
    /\ WF_vars(\E p \in Procs : SetReminder_create(p))
    /\ WF_vars(\E p \in Procs, ok \in BOOLEAN : SetReminder_sendMail(p, ok))
    /\ WF_vars(\E p \in Procs : Job_find(p, NumProcs))
    /\ WF_vars(\E p \in Procs, i \in 1..MaxReminders, ok \in BOOLEAN : Job_sendMail(p, i, ok))
    /\ WF_vars(\E p \in Procs, i \in 1..MaxReminders : Job_save(p, i))
    /\ \A i \in 1..MaxReminders : SF_vars(\E p \in Procs : Job_sendMail(p, i, TRUE))

(***************************************************************************)
(* The aggregates a movie should carry.                                    *)
(***************************************************************************)
MeanOf(m) ==
    LET S == ReviewsOf(m)
    IN IF S = {} THEN Zero ELSE Divide(SumRatings(S), Cardinality(S))

Consistent(m) ==
    /\ movies[m].averageRating = MeanOf(m)
    /\ movies[m].totalRatings = Cardinality(ReviewsOf(m))

\* C1: with requests run one at a time, whenever no request is in flight every
\* movie's averageRating is the mean of its stored reviews' ratings (0 when
\* there are none) and its totalRatings is their number.
C1_AggregatesMatchReviews ==
    InFlight = {} => \A m \in MovieIds : MovieExists(m) => Consistent(m)

\* C2: once all concurrent review writes have completed, the movie's
\* averageRating and totalRatings are the mean and the count of the reviews
\* stored then.
C2_ConvergesOnceAllLanded ==
    \A m \in MovieIds :
        (MovieExists(m) /\ \A p \in Procs : req[p].pc = "idle") => Consistent(m)

\* C3: after a handler stopped between its review write and its movie write,
\* the next review create, update or delete for that movie that runs to
\* completion leaves the movie's averageRating and totalRatings equal to the
\* mean and the count of its stored reviews.
C3_NextWriteRepairs ==
    \A m \in MovieIds :
        ( /\ InFlight = {}
          /\ resp.status \in {200, 201}
          /\ resp.op \in {"createA", "updateA", "deleteA"}
          /\ resp.movie = m
          /\ MovieExists(m) ) => Consistent(m)

(***************************************************************************)
(* Steps seen as requests: the step is the arrival of a request by         *)
(* principal u for review rid (or movie m), whatever the body.             *)
(***************************************************************************)
UpdateOrDeleteRequest(u, rid) ==
    \E p \in Procs :
        \/ \E r \in RatingInputs :
              \/ UpdateReviewA_begin(p, u, rid, r, NumProcs)
              \/ PutReviewRoute(p, u, rid, r, NumProcs)
              \/ UpdateReviewB(p, u, rid, r, NumProcs)
        \/ DeleteReviewA_begin(p, u, rid, NumProcs)
        \/ DeleteReviewRoute(p, u, rid, NumProcs)

RouteRequest(u, rid) ==
    \E p \in Procs :
        \/ \E r \in RatingInputs : PutReviewRoute(p, u, rid, r, NumProcs)
        \/ DeleteReviewRoute(p, u, rid, NumProcs)

CreateRequest(u, m) ==
    \E p \in Procs, r \in RatingInputs, text \in BOOLEAN :
        \/ CreateReviewA_save(p, u, m, r, text, NumProcs)
        \/ CreateReviewB_findOne(p, u, m, r, text, NumProcs)

IsAuthor(u, rid) == \E x \in ReviewById(rid) : x.user = u

\* the review exists and u is neither its author nor an admin
Stranger(u, rid) == ReviewById(rid) # {} /\ ~IsAuthor(u, rid) /\ Role(u) # "admin"

C5_RouteLetsAuthorOrAdmin ==
    [][\A u \in Users, rid \in ReviewIds :
          (ReviewById(rid) # {} /\ RouteRequest(u, rid))
          => ((resp'.status # 403) <=> (IsAdmin(u) \/ IsAuthor(u, rid)))]_vars

\* C6: a createReview by a user who already has a review for that movie is
\* answered 400, stores no second review and leaves the stored reviews and the
\* movies as they were.
C6_DuplicateRejected ==
    [][\A u \in Users, m \in MovieIds :
          (ReviewOfPair(u, m) # {} /\ CreateRequest(u, m))
          => ( /\ resp'.status = 400
               /\ UNCHANGED <<reviews, movies, nextId, req>> )]_vars

\* a second createReview was refused by the unique index while the first review
\* is stored
C6_Witness ==
    /\ resp.status = 400
    /\ resp.op = "createA"
    /\ resp.msg = "E11000"
    /\ ReviewsOf(resp.movie) # {}

\* C7: in every reachable state, whatever the interleaving of the requests, at
\* most one review is stored for each (user, movie) pair.
C7_OneReviewPerPair ==
    \A x \in reviews, y \in reviews :
        (x.user = y.user /\ x.movie = y.movie) => x = y

\* a createReview of B that passed its findOne lost the race to a concurrent
\* createReview of the same user for the same movie and was refused by the index
C7_Witness ==
    /\ resp.status = 400
    /\ resp.op = "createB"
    /\ resp.msg = "E11000"

\* a createReview in flight answers in this step
CreateAnswers(p) ==
    /\ req[p].pc # "idle"
    /\ req[p].op \in {"createA", "createB"}
    /\ req'[p].pc = "idle"
    /\ resp'.status # 0

RecomputeWrite(m) ==
    \E p \in Procs :
        /\ req[p].pc \in {"cA_upd", "uA_upd", "dA_upd", "cB_save"}
        /\ req[p].movie = m

\* C10: a movie's averageRating and totalRatings change only in the movie write
\* of a rating recomputation, and a movie is created with the default
\* aggregates, whatever the request body carries.
C10_AggregatesHaveNoOtherWriter ==
    [][\A m \in MovieIds :
          /\ (MovieExists(m) /\ MovieExists(m)')
             => ( \/ /\ movies'[m].averageRating = movies[m].averageRating
                     /\ movies'[m].totalRatings = movies[m].totalRatings
                  \/ RecomputeWrite(m) )
          /\ (~MovieExists(m) /\ MovieExists(m)')
             => ( /\ movies'[m].averageRating = Zero
                  /\ movies'[m].totalRatings = 0 )]_vars

\* C11: in every reachable state every stored review has a rating between 1
\* and 5, and every movie's averageRating lies in [0, 5].
C11_RatingsStayInRange ==
    /\ \A x \in reviews : MinRating <= x.rating /\ x.rating <= MaxRating
    /\ \A m \in MovieIds :
          MovieExists(m) => InRange(movies[m].averageRating, MinAverage, MaxAverage)

\* the step is the arrival of an updateList or deleteList request by u for l
ListMutationRequest(u, l) ==
    \E p \in Procs :
        \/ \E name \in ListNames, pub \in BOOLEAN :
              UpdateList(p, u, l, name, pub, NumProcs)
        \/ DeleteList(p, u, l, NumProcs)

\* C12: updateList and deleteList are applied exactly when the principal is the
\* list's creator or an admin; for any other principal the request is rejected
\* and the list is left unchanged.
C12_CreatorOrAdminMutatesList ==
    [][\A u \in Users, l \in ListIds :
          (lists[l].exists /\ ListMutationRequest(u, l))
          => IF lists[l].creator = u \/ IsAdmin(u)
             THEN resp'.status = 200
             ELSE resp'.status >= 400 /\ lists' = lists]_vars

\* the step is the save() of a membership handler p whose op is in ops
MembershipSave(p, ops) ==
    /\ req[p].pc \in {"am_save", "rm_save", "wA_save", "wB_save"}
    /\ req[p].op \in ops
    /\ req'[p].pc = "idle"
    /\ resp'.status < 400

\* the collection a membership handler in flight works on, before and after
\* the step
MembersBefore(p) ==
    IF req[p].pc \in {"am_save", "rm_save"} THEN lists[req[p].list].movies
    ELSE users[req[p].user].wishlist

MembersAfter(p) ==
    IF req[p].pc \in {"am_save", "rm_save"} THEN lists'[req[p].list].movies
    ELSE users'[req[p].user].wishlist

\* C13: an add stores the movie only when the collection does not hold it, so
\* the collection never holds it twice; a remove takes out that movie and no
\* other, and is carried out whenever the collection holds the movie.
C13_MembershipIdempotent ==
    [][/\ \A p \in Procs :
            /\ MembershipSave(p, {"addMovie", "addWishA", "addWishB"}) =>
                  /\ ~InSeq(req[p].movie, MembersBefore(p))
                  /\ MembersAfter(p) = Append(MembersBefore(p), req[p].movie)
            /\ MembershipSave(p, {"removeMovie", "removeWishA", "removeWishB"}) =>
                  MembersAfter(p) = Without(MembersBefore(p), req[p].movie)
       /\ \A u \in Users, l \in ListIds, m \in MovieIds :
            ( /\ lists[l].exists /\ lists[l].creator = u
              /\ InSeq(m, lists[l].movies)
              /\ \E p \in Procs : RemoveMovieFromList_findById(p, u, l, m, NumProcs) )
            => \E p \in Procs : req'[p].pc = "rm_save"
      ]_vars

\* the step is the arrival of a followList request by u for l
FollowRequest(u, l) ==
    \E p \in Procs :
        FollowListA_findById(p, u, l, NumProcs) \/ FollowListB_findById(p, u, l, NumProcs)

\* C14: followList by a principal who may see the list removes the principal
\* from followers when present and adds them when absent, and followers never
\* holds a principal twice.
C14_FollowListToggles ==
    [][/\ \A u \in Users, l \in ListIds :
            ( /\ lists[l].exists
              /\ lists[l].isPublic \/ lists[l].creator = u
              /\ FollowRequest(u, l) )
            => \E p \in Procs :
                  /\ req'[p].pc \in {"fA_save", "fB_save"}
                  /\ req'[p].delta = IF InSeq(u, lists[l].followers) THEN "pull" ELSE "push"
       /\ \A p \in Procs :
            (req[p].pc \in {"fA_save", "fB_save"} /\ req'[p].pc = "idle" /\ resp'.status = 200)
            => lists'[req[p].list].followers =
                  IF InSeq(req[p].user, lists[req[p].list].followers)
                  THEN Without(lists[req[p].list].followers, req[p].user)
                  ELSE Append(lists[req[p].list].followers, req[p].user)
      ]_vars

\* C15: the movies getRecommendations sends never include a movie the
\* requesting user has a review of.
C15_NoRatedMovieRecommended ==
    \A m \in result.movies : ReviewOfPair(result.user, m) = {}

\* genre, cast or crew of the film meets the user's favourites, and its
\* content rating and language meet the user's lists unless those are empty
Wanted(u, m) ==
    LET prefs == users[u].preferences
        film == catalog[m]
    IN /\ \/ \E g \in film.genre : g \in prefs.favoriteGenres
          \/ \E a \in film.cast : a \in prefs.favoriteActors
          \/ \E d \in film.crew : d \in prefs.favoriteDirectors
       /\ prefs.contentRating = {} \/ film.ageRating \in prefs.contentRating
       /\ prefs.languages = {} \/ \E x \in film.language : x \in prefs.languages

\* C16: getRecommendations sends at most 10 movies, each of them wanted, and
\* all the wanted movies when they are 10 or fewer.
C16_RecommendationsMatchPreferences ==
    (resp.status = 200 /\ resp.op = "recommend") =>
        LET W == {m \in DOMAIN movies : MovieExists(m) /\ Wanted(result.user, m)}
        IN /\ Cardinality(result.movies) <= RecommendLimit
           /\ result.movies \subseteq W
           /\ Cardinality(W) <= RecommendLimit => result.movies = W

\* more than 10 movies were wanted and 10 of them were sent
C16_Witness ==
    /\ resp.status = 200 /\ resp.op = "recommend"
    /\ Cardinality(result.movies) = RecommendLimit
    /\ Cardinality({m \in DOMAIN movies : MovieExists(m) /\ Wanted(result.user, m)})
          > RecommendLimit

\* C17: for a user whose favourites and restrictions are all empty
\* getRecommendations sends no movie, whatever the catalogue.
C17_NoFavouritesNoRecommendations ==
    ( /\ resp.status = 200 /\ resp.op = "recommend"
      /\ \A f \in DOMAIN users[result.user].preferences :
            users[result.user].preferences[f] = {} )
    => result.movies = {}

\* a user without favourites was sent an empty list on a catalogue of 11 movies
C17_Witness ==
    /\ resp.status = 200 /\ resp.op = "recommend"
    /\ \A f \in DOMAIN users[result.user].preferences :
          users[result.user].preferences[f] = {}
    /\ \A m \in CatalogIds : MovieExists(m)
    /\ result.movies = {}

\* the movie a step of process p works for
MovieOfStep(p) ==
    IF req[p].pc # "idle" THEN req[p].movie
    ELSE IF req'[p].pc # "idle" THEN req'[p].movie ELSE "none"

\* C18: when review creates, updates and deletes for different movies
\* interleave, every step of a handler leaves the other movie's document and
\* the other movie's reviews as they were, and once no request is in flight
\* every movie's averageRating and totalRatings are the mean and the number of
\* its own stored reviews.
C18_DifferentMoviesDoNotInterfere ==
    [][/\ \A p \in Procs :
            req'[p] # req[p] =>
              \A m \in MovieIds \ {MovieOfStep(p)} :
                  /\ movies'[m] = movies[m]
                  /\ {x \in reviews' : x.movie = m} = {x \in reviews : x.movie = m}
       /\ (\A p \in Procs : req'[p].pc = "idle") =>
              \A m \in MovieIds :
                  LET S == {x \in reviews' : x.movie = m} IN
                  /\ movies'[m].totalRatings = Cardinality(S)
                  /\ movies'[m].averageRating =
                        IF S = {} THEN Zero ELSE Divide(SumRatings(S), Cardinality(S))
      ]_vars

\* a create for one movie and a delete for the other are both about to write
\* their movie
C18_Witness ==
    \E p, q \in Procs :
        /\ req[p].pc = "cA_upd" /\ req[q].pc = "dA_upd"
        /\ req[p].movie # req[q].movie
        /\ \A m \in MovieIds : MovieExists(m)

\* the step is the arrival of a request carrying token t on a route behind
\* authenticate
ProtectedRequest(t) ==
    \/ \E m \in MovieIds : MovieRoute(1, t, m, 1)
    \/ UserRoute(1, t, 1)

\* C19: a request to a route behind authenticate that carries no token, a
\* token that fails verification, or a verifiable token whose user is no longer
\* stored is answered 401, no handler is started for it and no collection
\* changes.
C19_UnauthenticatedNeverReachesHandler ==
    [][\A t \in Tokens :
          (ProtectedRequest(t) /\ (t.kind # "good" \/ ~users[t.userId].exists))
          => /\ resp'.status = 401
             /\ req' = req
             /\ UNCHANGED <<movies, reviews, nextId, users, lists, catalog>>]_vars

\* the token of a deleted user was refused while a review of that user is
\* still stored
C19_Witness ==
    /\ resp.status = 401 /\ resp.msg = "User not found"
    /\ \E x \in reviews : ~users[x.user].exists

\* C20: a request on an admin-only movie route (create, update, delete movie,
\* update of a sub-document) by an authenticated principal whose role is not
\* admin is answered 403 by isAdmin, no handler is started and the movies are
\* unchanged.
C20_AdminOnlyMovieMutations ==
    [][\A t \in Tokens, m \in MovieIds :
          ( /\ MovieRoute(1, t, m, 1)
            /\ t.kind = "good" /\ users[t.userId].exists
            /\ Role(t.userId) # "admin" )
          => /\ resp'.status = 403
             /\ req' = req
             /\ movies' = movies /\ reviews' = reviews]_vars

\* a non-admin was refused on a movie route for a movie an admin has edited
C20_Witness ==
    /\ resp.status = 403 /\ resp.op = "movieRoute"
    /\ MovieExists(resp.movie) /\ movies[resp.movie].specs = 1

\* C21: a store operation that fails inside createReview, updateReview or
\* followList is answered 500 at once, and the handler ends without trying
\* the operation again.
C21_StoreFailureAnswers500 ==
    [][\A p \in Procs :
          StoreFails(p) => resp'.status = 500 /\ req'[p] = Idle]_vars

\* C24: when deleteMovie has answered success for a movie and no request is in
\* flight, no stored review references that movie.
C24_DeleteMovieTakesItsReviews ==
    ( /\ resp.status \in {200, 204}
      /\ resp.op \in {"deleteMovieA", "deleteMovieB"}
      /\ InFlight = {} )
    => ReviewsOf(resp.movie) = {}

\* C25: when the review an updateReview passed its ownership check for has been
\* deleted before the handler's write, the write step changes no review and no
\* movie, answers with an error status and ends the handler.
C25_UpdateOfDeletedReviewIsRejected ==
    [][\A p \in Procs :
          ( /\ req[p].pc = "uA_write"
            /\ ReviewById(req[p].rid) = {}
            /\ req'[p] # req[p] )
          => /\ resp'.status >= 400
             /\ req'[p] = Idle
             /\ reviews' = reviews /\ movies' = movies]_vars

\* an updateReview was answered with the error of the vanished review while
\* the deleteReview that removed it is still recomputing
C25_Witness ==
    /\ resp.status = 400 /\ resp.op = "updateA" /\ resp.msg = "TypeError"
    /\ \E q \in Procs : req[q].pc \in {"dA_find", "dA_upd"}

\* C26: no user's wishlist holds the same movie twice.
C26_WishlistHasNoDuplicates ==
    \A u \in Users :
        users[u].exists =>
            \A i, j \in DOMAIN users[u].wishlist :
                users[u].wishlist[i] = users[u].wishlist[j] => i = j

\* C28: deleteUserProfile removes the user record and nothing else; a deleted
\* user stays deleted, and every later request on a route behind authenticate
\* that carries the deleted user's token is answered 401 with no handler
\* started.
C28_DeletedUserIsLockedOut ==
    [][/\ \A u \in Users : ~users[u].exists => ~users'[u].exists
       /\ (resp'.status = 200 /\ resp'.op = "deleteProfile")
            => /\ UNCHANGED <<movies, reviews, nextId, lists>>
               /\ \E u \in Users :
                     /\ users[u].exists /\ ~users'[u].exists
                     /\ \A v \in Users \ {u} : users'[v] = users[v]
       /\ \A t \in Tokens :
             (t.kind = "good" /\ ~users[t.userId].exists /\ ProtectedRequest(t))
             => resp'.status = 401 /\ resp'.msg = "User not found" /\ req' = req
      ]_vars

\* the deleted admin's token was refused on a movie route while a review the
\* admin wrote is still stored
C28_Witness ==
    /\ resp.status = 401 /\ resp.op = "movieRoute"
    /\ ~users["adm"].exists
    /\ \E x \in reviews : x.user = "adm"

\* C23: after every step of register and of the profile updates no two users
\* share a username and no two share an email, and a register or profile
\* update answered with an error status has changed no user record.
C23_UsernamesAndEmailsUnique ==
    [][/\ \A a, b \in AccountIds :
            (a # b /\ profile'[a].exists /\ profile'[b].exists)
            => /\ profile'[a].username # profile'[b].username
               /\ profile'[a].email # profile'[b].email
       /\ (resp'.status >= 400
            /\ resp'.op \in {"register", "updateUserProfile", "updateProfile"})
            => profile' = profile]_vars

\* a register that found no existing user was refused by the unique index:
\* another register of the same name landed in between
C23_Witness ==
    /\ resp.status = 500 /\ resp.op = "register"
    /\ \E a \in AccountIds : profile[a].exists

\* C27: register and the profile updates, none of whose callers holds an admin
\* token, never produce a user whose role is admin.
C27_NoSelfMadeAdmin ==
    \A a \in AccountIds : profile[a].exists => profile[a].role # "admin"

\* C22: a reminder's notified flag never goes back from true to false, and a
\* run of the job that starts sends for no reminder whose flag is true.
C22_NotifiedOnlyRises ==
    [][/\ \A r \in reminders :
            r.notified => \E x \in reminders' : x.id = r.id /\ x.notified
       /\ \A p \in Procs :
            (req[p].pc = "idle" /\ req'[p].pc = "job")
            => \A r \in reminders : r.id \in req'[p].sending => ~r.notified
      ]_vars

\* a reminder has been marked while a second run, which found it unmarked,
\* still has its send under way
C22_Witness ==
    \E r \in reminders, p \in Procs :
        r.notified /\ req[p].pc = "job" /\ r.id \in req[p].sending

\* C30: a setReminder answered 404 stores nothing, a reminder is stored with
\* notified false for a movie that exists, and a setReminder that answers
\* with an error status has no reminder of its request in the store.
C30_SetReminderStoresOrFails ==
    [][/\ (resp'.status = 404 /\ resp'.op = "setReminder") => reminders' = reminders
       /\ \A r \in reminders' \ reminders :
            r.id \notin {x.id : x \in reminders} => ~r.notified /\ MovieExists(r.movieId)
       /\ \A p \in Procs :
            ( /\ req[p].pc \in {"sr_create", "sr_mail"}
              /\ req'[p] = Idle
              /\ resp'.status >= 400 )
            => req[p].pc = "sr_create" /\ reminders' = reminders
      ]_vars

\* C29: the job marks a reminder notified only in the save that follows the
\* successful send for it; a failed send leaves the flag as it was; and while
\* the job keeps running and sends eventually succeed, every stored reminder
\* whose date has come is eventually marked notified.
C29_EveryDueReminderNotified ==
    /\ [][\A r \in reminders :
            (~r.notified /\ \E x \in reminders' : x.id = r.id /\ x.notified)
            => \E p \in Procs : req[p].pc = "job" /\ r.id \in req[p].saving]_vars
    /\ \A i \in 1..MaxReminders :
          (released /\ \E r \in reminders : r.id = i)
          ~> (\E r \in reminders : r.id = i /\ r.notified)

====
